---------------------------- MODULE Spec2Model ----------------------------
(***************************************************************************)
(* State-machine model of the NASCAR 25 stream overlay widgets:            *)
(*   alerts.js (src/unnamed/part_001), chat.js (second half of             *)
(*   src/assets/js/shared.js) and ticker.js (src/assets/js/ticker.js).     *)
(*                                                                         *)
(* Each widget script declares its own top-level `demoInterval` and        *)
(* `DEMO_DATA`, so each runs in a document of its own; the three engines   *)
(* are therefore checked under three specifications (Spec for the alert    *)
(* engine, SpecChat, SpecTicker) over one set of variables.                *)
(*                                                                         *)
(* DOM nodes are modelled by identity: the k-th element a widget builds is *)
(* the number k.  A container is the sequence of its children.             *)
(***************************************************************************)
EXTENDS Integers, Sequences, FiniteSets, TLC

(***************************************************************************)
(* Program constants                                                       *)
(***************************************************************************)
\* ALERT_CONFIG.MAX_ALERTS
MAX_ALERTS == 3
\* ALERT_CONFIG.DEMO_INTERVAL
ALERT_DEMO_INTERVAL == 12000
\* CHAT_CONFIG.DEMO_INTERVAL
CHAT_DEMO_INTERVAL == 5000
\* the `for (let i = 0; i < 5; i++)` of chat startDemoMode
INITIAL_MESSAGES == 5
\* TICKER_CONFIG.DEMO_INTERVAL
TICKER_DEMO_INTERVAL == 8000
\* CHAT_CONFIG.MAX_MESSAGES
MAX_MESSAGES == 50
\* TICKER_CONFIG.MAX_ITEMS
MAX_ITEMS == 20
\* TICKER_CONFIG.SCROLL_SPEED
SCROLL_SPEED == 30

(***************************************************************************)
(* Bounds of the model                                                     *)
(***************************************************************************)
\* number of alert elements createAlert may build in one behaviour
MaxCreated == 6
\* number of message elements addChatLine may build in one behaviour
MaxChatBuilt == 52
\* number of item records addTickerItem may be handed in one behaviour
MaxTickerBuilt == 22
\* number of 'No recent events' placeholders the model lets pile up
MaxPlaceholders == 3

\* number of setTimeout(generateDemoMessage) callbacks the model lets pend
MaxDemoPending == 10

NULL == "null"
UNSET == ""
PRESENT == "present"

\* the types of DEMO_DATA.events (ticker.js), in order
DEMO_EVENTS ==
  <<"follow", "subscribe", "subscribe", "donation", "cheer",
    "raid", "follow", "subscribe", "donation", "cheer">>
\* the types generateDemoEvent draws from
DemoEventTypes == {"follow", "subscribe", "donation", "cheer", "raid"}

\* own keys of ALERT_CONFIG.types
AlertTypes == {"follow", "subscribe", "donation", "cheer"}
\* the Event Record types of the overlay (TICKER_CONFIG.icons keys)
EventTypes == {"follow", "subscribe", "donation", "cheer", "raid", "host"}
\* a property name every object literal inherits from Object.prototype
InheritedKeys == {"constructor"}
\* a type no registry of the overlay knows
UnregisteredTypes == {"merch"}
\* the values of alertData.type / itemData.type the model submits
InputTypes == EventTypes \cup InheritedKeys \cup UnregisteredTypes

\* ALERT_CONFIG.types[type]: the registered config for an own key, an
\* inherited (truthy) member for a key of Object.prototype, else undefined
typesLookup(type) ==
  IF type \in AlertTypes THEN "config"
  ELSE IF type \in InheritedKeys THEN "inherited"
  ELSE "undefined"

\* TICKER_CONFIG.icons[type]: the registered icon (named by its key) for an
\* own key, an inherited (truthy) member for a key of Object.prototype, else
\* undefined
iconsLookup(type) ==
  IF type \in EventTypes THEN type
  ELSE IF type \in InheritedKeys THEN "inherited"
  ELSE "undefined"

\* the fallback of `TICKER_CONFIG.icons[type] || '\u25CF'`
DEFAULT_ICON == "default"

\* function createTickerItem(itemData), for itemData.type = type: the data-type
\* attribute and the text of the .ticker-icon child
createTickerItem(type) ==
  [type |-> type,
   icon |-> IF iconsLookup(type) # "undefined" THEN iconsLookup(type) ELSE DEFAULT_ICON]

Range(s) == {s[i] : i \in 1..Len(s)}
Without(s, x) == SelectSeq(s, LAMBDA a : a # x)
RemoveAt(s, i) == SubSeq(s, 1, i - 1) \o SubSeq(s, i + 1, Len(s))

VARIABLES
  \* ---- alerts.js ----
  activeAlerts,      \* let activeAlerts = []      (sequence of alert elements)
  alertQueue,        \* let alertQueue = []
  alertContainer,    \* let alertContainer = null  (NULL or PRESENT)
  alertDom,          \* children of the alert container, in document order
  exiting,           \* alert elements whose classList holds 'exiting'
  timers,            \* pending setTimeout callbacks of displayAlert/removeAlert,
                     \*   in the order they were set: [kind, alert]
  alertDemoInterval, \* let demoInterval = null    (NULL or PRESENT: an interval id)
  alertDemoStart,    \* the setTimeout(startDemoMode, 2000) of initAlerts is pending
  alertIntervals,    \* number of live setInterval timers of startDemoMode
  created,           \* number of alert elements built so far (element identity)
  \* ---- chat.js ----
  chatMessages,      \* let chatMessages = []      (sequence of message elements)
  chatContainer,     \* let chatContainer = null   (NULL or PRESENT)
  chatDom,           \* children of the chat container, in document order
  isAutoScrollEnabled, \* let isAutoScrollEnabled = CHAT_CONFIG.AUTO_SCROLL
  chatScrollTop,     \* chatContainer.scrollTop, in message heights
  chatReady,         \* initChat has run
  chatBuilt,         \* number of message elements built so far
  chatDemoInterval,  \* let demoInterval = null    (NULL or PRESENT: an interval id)
  chatIntervals,     \* number of live setInterval timers of startDemoMode
  chatDemoStart,     \* the setTimeout(startDemoMode, 1000) of initChat is pending
  chatDemoPending,   \* number of pending setTimeout(generateDemoMessage, i * 500)
  \* ---- ticker.js ----
  tickerItems,       \* let tickerItems = []       (sequence of item records)
  tickerTrack,       \* let tickerTrack = null     (NULL or PRESENT)
  trackDom,          \* children of the track: item nodes (by record) and separators
  placeholders,      \* number of .ticker-empty nodes under the track's parent
  animationDuration, \* tickerTrack.style.animationDuration in seconds (0: never set)
  tickerReady,       \* initTicker has run
  tickerBuilt,       \* number of item records handed to addTickerItem so far
  headType,          \* tickerItems[0].type (NULL while the list is empty)
  tickerDemoInterval, \* let demoInterval = null   (NULL or PRESENT: an interval id)
  tickerIntervals,   \* number of live setInterval timers of startDemoMode
  tickerDemoStart,   \* the setTimeout(startDemoMode, 1500) of initTicker is pending
  trackClassList,    \* speed classes on the track element: subset of {slow, fast}
  animationPlayState, \* tickerTrack.style.animationPlayState (UNSET: never set)
  \* ---- configuration ----
  demoDisabled,      \* the widget's DEMO_INTERVAL was edited to 0 before loading
  \* ---- history (not program state) ----
  shown,             \* alert elements in the order they entered activeAlerts
  everQueued,        \* alert elements that were pushed on alertQueue
  cleared,           \* alert elements clearAlerts took out of activeAlerts
  lastOp             \* the handler that ran last, with its argument

alertVars == <<activeAlerts, alertQueue, alertContainer, alertDom, exiting,
               timers, alertDemoInterval, alertDemoStart, alertIntervals,
               created,
               shown, everQueued, cleared>>
chatDemoVars == <<chatDemoInterval, chatIntervals, chatDemoStart, chatDemoPending>>
chatVars == <<chatMessages, chatContainer, chatDom, isAutoScrollEnabled,
              chatScrollTop, chatReady, chatBuilt, chatDemoVars>>
tickerDemoVars == <<tickerDemoInterval, tickerIntervals, tickerDemoStart>>
tickerControlVars == <<trackClassList, animationPlayState>>
tickerVars == <<tickerItems, tickerTrack, trackDom, placeholders,
                animationDuration, tickerReady, tickerBuilt, headType,
                tickerDemoVars, tickerControlVars>>
config == <<demoDisabled>>
vars == <<alertVars, chatVars, tickerVars, config, lastOp>>

\* X_CONFIG.DEMO_INTERVAL of the running widget: the shipped value, or 0
DEMO_INTERVAL(shipped) == IF demoDisabled THEN 0 ELSE shipped

Op(name, type, alert) == [op |-> name, type |-> type, alert |-> alert]

\* history: whether a stop-demo call made now finds the demo running
Stops(demoInterval) == IF demoInterval # NULL THEN "stopped" ELSE ""

(***************************************************************************)
(* alerts.js: handlers as functions on the mutable state they touch        *)
(***************************************************************************)
AlertState ==
  [activeAlerts |-> activeAlerts, alertQueue |-> alertQueue,
   alertDom |-> alertDom, exiting |-> exiting, timers |-> timers,
   demoInterval |-> alertDemoInterval, intervals |-> alertIntervals,
   created |-> created,
   shown |-> shown, everQueued |-> everQueued, cleared |-> cleared]

SetAlertState(s) ==
  /\ activeAlerts' = s.activeAlerts
  /\ alertQueue' = s.alertQueue
  /\ alertDom' = s.alertDom
  /\ exiting' = s.exiting
  /\ timers' = s.timers
  /\ alertDemoInterval' = s.demoInterval
  /\ alertIntervals' = s.intervals
  /\ created' = s.created
  /\ shown' = s.shown
  /\ everQueued' = s.everQueued
  /\ cleared' = s.cleared

\* displayAlert without the setTimeout that schedules removal
displayAlert_NoTimer(s, alert) ==
  IF alertContainer = NULL
  THEN s
  ELSE [s EXCEPT !.activeAlerts = Append(@, alert),
                 !.alertDom = Append(@, alert),
                 !.shown = Append(@, alert)]

\* displayAlert attaching the newest alert first (container.prepend(alert))
displayAlert_Prepends(s, alert) ==
  IF alertContainer = NULL
  THEN s
  ELSE [s EXCEPT !.activeAlerts = Append(@, alert),
                 !.alertDom = <<alert>> \o @,
                 !.timers = Append(@, [kind |-> "lifetime", alert |-> alert]),
                 !.shown = Append(@, alert)]

\* function displayAlert(alert)
displayAlert(s, alert) ==
  IF alertContainer = NULL
  THEN s
  ELSE [s EXCEPT !.activeAlerts = Append(@, alert),
                 !.alertDom = Append(@, alert),
                 !.timers = Append(@, [kind |-> "lifetime", alert |-> alert]),
                 !.shown = Append(@, alert)]

\* createAlert admitting at `<=` instead of `<` MAX_ALERTS
createAlert_OffByOne(s, type) ==
  IF typesLookup(type) = "undefined"
  THEN s
  ELSE LET alert == s.created + 1
           s1 == [s EXCEPT !.created = alert]
       IN  IF Len(s1.activeAlerts) <= MAX_ALERTS
           THEN displayAlert(s1, alert)
           ELSE [s1 EXCEPT !.alertQueue = Append(@, alert),
                           !.everQueued = @ \cup {alert}]

\* createAlert counting only the alerts that are not exiting as active
createAlert_SkipsExiting(s, type) ==
  IF typesLookup(type) = "undefined"
  THEN s
  ELSE LET alert == s.created + 1
           s1 == [s EXCEPT !.created = alert]
           staying == SelectSeq(s1.activeAlerts, LAMBDA a : a \notin s1.exiting)
       IN  IF Len(staying) < MAX_ALERTS
           THEN displayAlert(s1, alert)
           ELSE [s1 EXCEPT !.alertQueue = Append(@, alert),
                           !.everQueued = @ \cup {alert}]

\* createAlert queueing one slot early (activeAlerts.length < MAX_ALERTS - 1)
createAlert_QueuesEarly(s, type) ==
  IF typesLookup(type) = "undefined"
  THEN s
  ELSE LET alert == s.created + 1
           s1 == [s EXCEPT !.created = alert]
       IN  IF Len(s1.activeAlerts) < MAX_ALERTS - 1
           THEN displayAlert(s1, alert)
           ELSE [s1 EXCEPT !.alertQueue = Append(@, alert),
                           !.everQueued = @ \cup {alert}]

\* function createAlert(alertData), for alertData.type = type
createAlert(s, type) ==
  IF typesLookup(type) = "undefined"
  THEN s
  ELSE LET alert == s.created + 1
           s1 == [s EXCEPT !.created = alert]
       IN  IF Len(s1.activeAlerts) < MAX_ALERTS
           THEN displayAlert(s1, alert)
           ELSE [s1 EXCEPT !.alertQueue = Append(@, alert),
                           !.everQueued = @ \cup {alert}]

\* removeAlert detaching the alert at once, without the exit phase
removeAlert_Immediate(s, alert) ==
  [s EXCEPT !.exiting = @ \cup {alert},
            !.alertDom = Without(@, alert),
            !.activeAlerts = Without(@, alert),
            !.timers = Append(@, [kind |-> "exit", alert |-> alert])]

\* function removeAlert(alert): the synchronous part, run by the lifetime timer
removeAlert(s, alert) ==
  [s EXCEPT !.exiting = @ \cup {alert},
            !.timers = Append(@, [kind |-> "exit", alert |-> alert])]

\* the exit callback promoting with alertQueue.pop() instead of shift()
removeAlertExit_Lifo(s, alert) ==
  LET s1 == [s EXCEPT !.alertDom = Without(@, alert),
                      !.activeAlerts = Without(@, alert)]
      n == Len(s1.alertQueue)
  IN  IF n > 0
      THEN displayAlert([s1 EXCEPT !.alertQueue = SubSeq(@, 1, n - 1)], s1.alertQueue[n])
      ELSE s1

\* the exit callback dropping the 'exiting' class after the animation (as
\* animateElement does) instead of filtering the alert out of activeAlerts
removeAlertExit_DropsClass(s, alert) ==
  LET s1 == [s EXCEPT !.alertDom = Without(@, alert),
                      !.exiting = @ \ {alert}]
  IN  IF Len(s1.alertQueue) > 0
      THEN displayAlert([s1 EXCEPT !.alertQueue = Tail(@)], Head(s1.alertQueue))
      ELSE s1

\* the exit callback without the promotion of the next queued alert
removeAlertExit_NoPromote(s, alert) ==
  [s EXCEPT !.alertDom = Without(@, alert),
            !.activeAlerts = Without(@, alert)]

\* the exit callback retiring the oldest active alert (activeAlerts.shift())
\* instead of the alert it was set for
removeAlertExit_ShiftsActive(s, alert) ==
  LET oldest == IF s.activeAlerts = <<>> THEN alert ELSE Head(s.activeAlerts)
      s1 == [s EXCEPT !.alertDom = Without(@, oldest),
                      !.activeAlerts = Without(@, oldest)]
  IN  IF Len(s1.alertQueue) > 0
      THEN displayAlert([s1 EXCEPT !.alertQueue = Tail(@)], Head(s1.alertQueue))
      ELSE s1

\* the callback removeAlert hands to setTimeout(..., 600)
removeAlertExit(s, alert) ==
  LET s1 == [s EXCEPT !.alertDom = Without(@, alert),
                      !.activeAlerts = Without(@, alert)]
  IN  IF Len(s1.alertQueue) > 0
      THEN displayAlert([s1 EXCEPT !.alertQueue = Tail(@)], Head(s1.alertQueue))
      ELSE s1

\* clearAlerts forgetting `alertQueue = []`
clearAlerts_KeepsQueue(s) ==
  [s EXCEPT !.alertDom = SelectSeq(@, LAMBDA a : a \notin Range(s.activeAlerts)),
            !.activeAlerts = <<>>,
            !.cleared = @ \cup Range(s.activeAlerts)]

\* clearAlerts splicing activeAlerts inside its forEach: every second alert
\* is skipped and stays
clearAlerts_SkipsEverySecond(s) ==
  LET kept == {s.activeAlerts[i] : i \in {j \in 1..Len(s.activeAlerts) : j % 2 = 0}}
  IN  [s EXCEPT !.alertDom = SelectSeq(@, LAMBDA a :
                                 a \notin Range(s.activeAlerts) \/ a \in kept),
                !.activeAlerts = SelectSeq(@, LAMBDA a : a \in kept),
                !.alertQueue = <<>>,
                !.cleared = @ \cup (Range(s.activeAlerts) \ kept)]

\* clearAlerts emptying the two lists without detaching the active alerts
clearAlerts_LeavesAttached(s) ==
  [s EXCEPT !.activeAlerts = <<>>,
            !.alertQueue = <<>>,
            !.cleared = @ \cup Range(s.activeAlerts)]

\* function clearAlerts()
clearAlerts(s) ==
  [s EXCEPT !.alertDom = SelectSeq(@, LAMBDA a : a \notin Range(s.activeAlerts)),
            !.activeAlerts = <<>>,
            !.alertQueue = <<>>,
            !.cleared = @ \cup Range(s.activeAlerts)]

\* startDemoMode without the `!demoInterval` test
startDemoMode_NoGuard(s, type) ==
  IF DEMO_INTERVAL(ALERT_DEMO_INTERVAL) > 0
  THEN [createAlert(s, type) EXCEPT !.demoInterval = PRESENT,
                                    !.intervals = @ + 1]
  ELSE s

\* startDemoMode without the `DEMO_INTERVAL > 0` test
startDemoMode_IgnoresConfig(s, type) ==
  IF s.demoInterval = NULL
  THEN [createAlert(s, type) EXCEPT !.demoInterval = PRESENT,
                                    !.intervals = @ + 1]
  ELSE s

\* function startDemoMode(), generateDemoAlert() drawing `type`
startDemoMode(s, type) ==
  IF DEMO_INTERVAL(ALERT_DEMO_INTERVAL) > 0 /\ s.demoInterval = NULL
  THEN [createAlert(s, type) EXCEPT !.demoInterval = PRESENT,
                                    !.intervals = @ + 1]
  ELSE s

\* function stopDemoMode(): clearInterval cancels the timer demoInterval names
stopDemoMode(s) ==
  IF s.demoInterval # NULL
  THEN [s EXCEPT !.demoInterval = NULL, !.intervals = @ - 1]
  ELSE s

(***************************************************************************)
(* Timers.  The host fires a timer only after every timer set earlier with *)
(* an equal or smaller delay: lifetime timers (8000 ms) wait for all       *)
(* earlier timers, exit timers (600 ms) for earlier exit timers only.      *)
(***************************************************************************)
CanFire(i) ==
  /\ i \in 1..Len(timers)
  /\ IF timers[i].kind = "lifetime"
     THEN i = 1
     ELSE \A j \in 1..(i - 1) : timers[j].kind # "exit"

Loaded ==
  /\ activeAlerts = <<>>
  /\ alertQueue = <<>>
  /\ alertContainer = NULL
  /\ alertDom = <<>>
  /\ exiting = {}
  /\ timers = <<>>
  /\ alertDemoInterval = NULL
  /\ alertDemoStart = FALSE
  /\ alertIntervals = 0
  /\ created = 0
  /\ shown = <<>>
  /\ everQueued = {}
  /\ cleared = {}
  /\ chatMessages = <<>>
  /\ chatContainer = NULL
  /\ chatDom = <<>>
  /\ isAutoScrollEnabled = TRUE
  /\ chatScrollTop = 0
  /\ chatReady = FALSE
  /\ chatBuilt = 0
  /\ chatDemoInterval = NULL
  /\ chatIntervals = 0
  /\ chatDemoStart = FALSE
  /\ chatDemoPending = 0
  /\ tickerItems = <<>>
  /\ tickerTrack = NULL
  /\ trackDom = <<>>
  /\ placeholders = 0
  /\ animationDuration = 0
  /\ tickerReady = FALSE
  /\ tickerBuilt = 0
  /\ headType = NULL
  /\ tickerDemoInterval = NULL
  /\ tickerIntervals = 0
  /\ tickerDemoStart = FALSE
  /\ trackClassList = {}
  /\ animationPlayState = UNSET
  /\ lastOp = Op("load", "", 0)

\* the widget as shipped, DEMO_INTERVAL > 0
Init == Loaded /\ demoDisabled = FALSE

\* the widget as shipped or with DEMO_INTERVAL edited to 0
InitAnyConfig == Loaded /\ demoDisabled \in BOOLEAN

(***************************************************************************)
(* alerts.js: actions                                                      *)
(***************************************************************************)
\* function initAlerts(), run once by onReady
InitAlerts ==
  /\ alertContainer = NULL
  /\ alertContainer' = PRESENT
  /\ alertDemoStart' = (DEMO_INTERVAL(ALERT_DEMO_INTERVAL) > 0)
  /\ lastOp' = Op("initAlerts", "", 0)
  /\ UNCHANGED <<activeAlerts, alertQueue, alertDom, exiting, timers,
                 alertDemoInterval, alertIntervals, created, shown,
                 everQueued, cleared,
                 chatVars, tickerVars, config>>

\* a call of window.createAlert / createAlert
CreateAlert ==
  \E type \in InputTypes :
    /\ created < MaxCreated
    /\ SetAlertState(createAlert(AlertState, type))
    /\ lastOp' = Op("createAlert", type, created + 1)
    /\ UNCHANGED <<alertContainer, alertDemoStart, chatVars, tickerVars, config>>

\* the lifetime timer set by displayAlert fires
LifetimeTimer ==
  \E i \in 1..Len(timers) :
    /\ CanFire(i)
    /\ timers[i].kind = "lifetime"
    /\ SetAlertState(removeAlert([AlertState EXCEPT !.timers = RemoveAt(@, i)],
                                 timers[i].alert))
    /\ lastOp' = Op("lifetimeTimer", "", timers[i].alert)
    /\ UNCHANGED <<alertContainer, alertDemoStart, chatVars, tickerVars, config>>

\* the exit timer set by removeAlert fires
ExitTimer ==
  \E i \in 1..Len(timers) :
    /\ CanFire(i)
    /\ timers[i].kind = "exit"
    /\ SetAlertState(removeAlertExit([AlertState EXCEPT !.timers = RemoveAt(@, i)],
                                     timers[i].alert))
    /\ lastOp' = Op("exitTimer", "", timers[i].alert)
    /\ UNCHANGED <<alertContainer, alertDemoStart, chatVars, tickerVars, config>>

\* a call of window.clearAlerts
ClearAlerts ==
  /\ SetAlertState(clearAlerts(AlertState))
  /\ lastOp' = Op("clearAlerts", "", 0)
  /\ UNCHANGED <<alertContainer, alertDemoStart, chatVars, tickerVars, config>>

\* the setTimeout(startDemoMode, 2000) of initAlerts fires
DemoStartTimer ==
  \E type \in AlertTypes :
    /\ alertDemoStart
    /\ created < MaxCreated
    /\ alertDemoStart' = FALSE
    /\ SetAlertState(startDemoMode(AlertState, type))
    /\ lastOp' = Op("demoStartTimer", type, 0)
    /\ UNCHANGED <<alertContainer, chatVars, tickerVars, config>>

\* a call of window.startDemoMode
StartDemoMode ==
  \E type \in AlertTypes :
    /\ created < MaxCreated
    /\ SetAlertState(startDemoMode(AlertState, type))
    /\ lastOp' = Op("startDemoMode", type, 0)
    /\ UNCHANGED <<alertContainer, alertDemoStart, chatVars, tickerVars, config>>

\* a call of window.stopDemoMode
StopDemoMode ==
  /\ SetAlertState(stopDemoMode(AlertState))
  /\ lastOp' = Op("stopDemoMode", Stops(alertDemoInterval), 0)
  /\ UNCHANGED <<alertContainer, alertDemoStart, chatVars, tickerVars, config>>

\* the setInterval callback of startDemoMode fires: generateDemoAlert()
DemoInterval ==
  \E type \in AlertTypes :
    /\ alertIntervals > 0
    /\ created < MaxCreated
    /\ SetAlertState(createAlert(AlertState, type))
    /\ lastOp' = Op("demoInterval", type, created + 1)
    /\ UNCHANGED <<alertContainer, alertDemoStart, chatVars, tickerVars, config>>

Next ==
  \/ InitAlerts
  \/ CreateAlert
  \/ LifetimeTimer
  \/ ExitTimer
  \/ ClearAlerts
  \/ DemoStartTimer
  \/ StartDemoMode
  \/ StopDemoMode
  \/ DemoInterval

Spec == Init /\ [][Next]_vars

\* The alert engine fed by createAlert calls of one registered type, with a
\* host whose timers eventually fire.  The demo generator submits through
\* createAlert and all registered types are admitted alike, so the alert
\* lists take the same values as under Spec.
NextLive ==
  \/ InitAlerts
  \/ CreateAlert /\ lastOp'.type = "follow"
  \/ LifetimeTimer
  \/ ExitTimer
  \/ ClearAlerts

SpecLive ==
  Init /\ [][NextLive]_vars /\ WF_vars(LifetimeTimer) /\ WF_vars(ExitTimer)

(***************************************************************************)
(* chat.js: handlers                                                       *)
(***************************************************************************)
ChatState ==
  [chatMessages |-> chatMessages, chatDom |-> chatDom,
   chatScrollTop |-> chatScrollTop, chatBuilt |-> chatBuilt]

SetChatState(s) ==
  /\ chatMessages' = s.chatMessages
  /\ chatDom' = s.chatDom
  /\ chatScrollTop' = s.chatScrollTop
  /\ chatBuilt' = s.chatBuilt

Min(a, b) == IF a <= b THEN a ELSE b
Max(a, b) == IF a >= b THEN a ELSE b

\* chatContainer.scrollHeight, one unit per message element
scrollHeight(dom) == Len(dom)

\* the host keeps scrollTop within the content after children are removed
clampScroll(s) == [s EXCEPT !.chatScrollTop = Min(@, scrollHeight(s.chatDom))]

\* function scrollToBottom()
scrollToBottom(s) ==
  IF chatContainer # NULL
  THEN [s EXCEPT !.chatScrollTop = scrollHeight(s.chatDom)]
  ELSE s

\* addChatLine without the `chatMessages.length > MAX_MESSAGES` eviction
addChatLine_NoLimit(s) ==
  IF chatContainer = NULL
  THEN s
  ELSE LET messageElement == s.chatBuilt + 1
           s1 == [s EXCEPT !.chatBuilt = messageElement,
                           !.chatDom = Append(@, messageElement),
                           !.chatMessages = Append(@, messageElement)]
       IN  IF isAutoScrollEnabled THEN scrollToBottom(s1) ELSE s1

\* addChatLine evicting with chatMessages.pop() instead of shift()
addChatLine_EvictsNewest(s) ==
  IF chatContainer = NULL
  THEN s
  ELSE LET messageElement == s.chatBuilt + 1
           s1 == [s EXCEPT !.chatBuilt = messageElement,
                           !.chatDom = Append(@, messageElement),
                           !.chatMessages = Append(@, messageElement)]
           s2 == IF Len(s1.chatMessages) > MAX_MESSAGES
                 THEN clampScroll(
                        [s1 EXCEPT !.chatMessages = SubSeq(@, 1, Len(@) - 1),
                                   !.chatDom = Without(@, messageElement)])
                 ELSE s1
       IN  IF isAutoScrollEnabled THEN scrollToBottom(s2) ELSE s2

\* addChatLine scrolling to the bottom whatever isAutoScrollEnabled says
addChatLine_AlwaysScrolls(s) ==
  IF chatContainer = NULL
  THEN s
  ELSE LET messageElement == s.chatBuilt + 1
           s1 == [s EXCEPT !.chatBuilt = messageElement,
                           !.chatDom = Append(@, messageElement),
                           !.chatMessages = Append(@, messageElement)]
           s2 == IF Len(s1.chatMessages) > MAX_MESSAGES
                 THEN clampScroll(
                        [s1 EXCEPT !.chatMessages = Tail(@),
                                   !.chatDom = Without(@, Head(s1.chatMessages))])
                 ELSE s1
       IN  scrollToBottom(s2)

\* function addChatLine(messageData)
addChatLine(s) ==
  IF chatContainer = NULL
  THEN s
  ELSE LET messageElement == s.chatBuilt + 1
           s1 == [s EXCEPT !.chatBuilt = messageElement,
                           !.chatDom = Append(@, messageElement),
                           !.chatMessages = Append(@, messageElement)]
           s2 == IF Len(s1.chatMessages) > MAX_MESSAGES
                 THEN clampScroll(
                        [s1 EXCEPT !.chatMessages = Tail(@),
                                   !.chatDom = Without(@, Head(s1.chatMessages))])
                 ELSE s1
       IN  IF isAutoScrollEnabled THEN scrollToBottom(s2) ELSE s2

\* function addSystemMessage(message)
addSystemMessage(s) == addChatLine(s)

\* clearChat forgetting `chatContainer.innerHTML = ''`
clearChat_KeepsDom(s) == [s EXCEPT !.chatMessages = <<>>]

\* clearChat forgetting `chatMessages = []`
clearChat_KeepsList(s) ==
  IF chatContainer # NULL
  THEN clampScroll([s EXCEPT !.chatDom = <<>>])
  ELSE s

\* function clearChat()
clearChat(s) ==
  LET s1 == IF chatContainer # NULL
            THEN clampScroll([s EXCEPT !.chatDom = <<>>])
            ELSE s
  IN  [s1 EXCEPT !.chatMessages = <<>>]

(***************************************************************************)
(* chat.js: actions.  The demo generator reaches the chat state only       *)
(* through addChatLine and addSystemMessage, the two calls below.          *)
(***************************************************************************)
\* function initChat(), run once by onReady; the document may lack .chat-messages
InitChat ==
  \E found \in {NULL, PRESENT} :
    /\ ~chatReady
    /\ chatReady' = TRUE
    /\ chatContainer' = found
    /\ chatDemoStart' = (found # NULL /\ DEMO_INTERVAL(CHAT_DEMO_INTERVAL) > 0)
    /\ lastOp' = Op("initChat", found, 0)
    /\ UNCHANGED <<chatMessages, chatDom, isAutoScrollEnabled, chatScrollTop,
                   chatBuilt, chatDemoInterval, chatIntervals, chatDemoPending,
                   alertVars, tickerVars, config>>

\* history: whether an addChatLine call made now goes over MAX_MESSAGES
Evicts ==
  IF chatContainer # NULL /\ Len(chatMessages) >= MAX_MESSAGES THEN "evict" ELSE ""

AddChatLine ==
  /\ chatBuilt < MaxChatBuilt
  /\ SetChatState(addChatLine(ChatState))
  /\ lastOp' = Op("addChatLine", Evicts, chatBuilt + 1)
  /\ UNCHANGED <<chatContainer, isAutoScrollEnabled, chatReady, chatDemoVars,
                 alertVars, tickerVars, config>>

AddSystemMessage ==
  /\ chatBuilt < MaxChatBuilt
  /\ SetChatState(addSystemMessage(ChatState))
  /\ lastOp' = Op("addSystemMessage", Evicts, chatBuilt + 1)
  /\ UNCHANGED <<chatContainer, isAutoScrollEnabled, chatReady, chatDemoVars,
                 alertVars, tickerVars, config>>

ClearChat ==
  /\ SetChatState(clearChat(ChatState))
  /\ lastOp' = Op("clearChat", "", 0)
  /\ UNCHANGED <<chatContainer, isAutoScrollEnabled, chatReady, chatDemoVars,
                 alertVars, tickerVars, config>>

\* function setAutoScroll(enabled)
SetAutoScroll ==
  \E enabled \in BOOLEAN :
    /\ isAutoScrollEnabled' = enabled
    /\ lastOp' = Op("setAutoScroll", IF enabled THEN "true" ELSE "false", 0)
    /\ UNCHANGED <<chatMessages, chatContainer, chatDom, chatScrollTop,
                   chatReady, chatBuilt, chatDemoVars, alertVars, tickerVars,
                   config>>

NextChat ==
  \/ InitChat
  \/ AddChatLine
  \/ AddSystemMessage
  \/ ClearChat
  \/ SetAutoScroll

SpecChat == Init /\ [][NextChat]_vars

(***************************************************************************)
(* chat.js: demo generator                                                 *)
(***************************************************************************)
ChatDemoState ==
  [chat |-> ChatState, demoInterval |-> chatDemoInterval,
   intervals |-> chatIntervals, pending |-> chatDemoPending]

SetChatDemoState(d) ==
  /\ SetChatState(d.chat)
  /\ chatDemoInterval' = d.demoInterval
  /\ chatIntervals' = d.intervals
  /\ chatDemoPending' = d.pending

\* function generateDemoMessage(): addSystemMessage or addChatLine
generateDemoMessage(s) == addChatLine(s)

\* function startDemoMode() of chat.js
chatStartDemoMode(d) ==
  IF DEMO_INTERVAL(CHAT_DEMO_INTERVAL) > 0 /\ d.demoInterval = NULL
  THEN [d EXCEPT !.chat = addSystemMessage(@),
                 !.pending = @ + INITIAL_MESSAGES,
                 !.demoInterval = PRESENT,
                 !.intervals = @ + 1]
  ELSE d

\* function stopDemoMode() of chat.js
chatStopDemoMode(d) ==
  IF d.demoInterval # NULL
  THEN [d EXCEPT !.demoInterval = NULL, !.intervals = @ - 1]
  ELSE d

\* the setTimeout(startDemoMode, 1000) of initChat fires
ChatDemoStartTimer ==
  /\ chatDemoStart
  /\ chatBuilt < MaxChatBuilt
  /\ chatDemoPending + INITIAL_MESSAGES <= MaxDemoPending
  /\ chatDemoStart' = FALSE
  /\ SetChatDemoState(chatStartDemoMode(ChatDemoState))
  /\ lastOp' = Op("chatDemoStartTimer", Evicts, 0)
  /\ UNCHANGED <<chatContainer, isAutoScrollEnabled, chatReady, alertVars,
                 tickerVars, config>>

\* a call of window.startChatDemo, which initChat sets once it found the
\* container
StartChatDemo ==
  /\ chatContainer # NULL
  /\ chatBuilt < MaxChatBuilt
  /\ chatDemoPending + INITIAL_MESSAGES <= MaxDemoPending
  /\ SetChatDemoState(chatStartDemoMode(ChatDemoState))
  /\ lastOp' = Op("startChatDemo", Evicts, 0)
  /\ UNCHANGED <<chatContainer, isAutoScrollEnabled, chatReady, chatDemoStart,
                 alertVars, tickerVars, config>>

\* a call of window.stopChatDemo
StopChatDemo ==
  /\ chatContainer # NULL
  /\ SetChatDemoState(chatStopDemoMode(ChatDemoState))
  /\ lastOp' = Op("stopChatDemo", Stops(chatDemoInterval), 0)
  /\ UNCHANGED <<chatContainer, isAutoScrollEnabled, chatReady, chatDemoStart,
                 alertVars, tickerVars, config>>

\* one of the setTimeout(generateDemoMessage, i * 500) of startDemoMode fires
ChatDemoTimeout ==
  /\ chatDemoPending > 0
  /\ chatBuilt < MaxChatBuilt
  /\ SetChatState(generateDemoMessage(ChatState))
  /\ chatDemoPending' = chatDemoPending - 1
  /\ lastOp' = Op("chatDemoTimeout", Evicts, chatBuilt + 1)
  /\ UNCHANGED <<chatContainer, isAutoScrollEnabled, chatReady, chatDemoStart,
                 chatDemoInterval, chatIntervals, alertVars, tickerVars, config>>

\* the setInterval callback of startDemoMode fires: generateDemoMessage()
ChatDemoInterval ==
  /\ chatIntervals > 0
  /\ chatBuilt < MaxChatBuilt
  /\ SetChatState(generateDemoMessage(ChatState))
  /\ lastOp' = Op("chatDemoInterval", Evicts, chatBuilt + 1)
  /\ UNCHANGED <<chatContainer, isAutoScrollEnabled, chatReady, chatDemoVars,
                 alertVars, tickerVars, config>>

NextChatDemo ==
  \/ InitChat
  \/ ChatDemoStartTimer
  \/ StartChatDemo
  \/ StopChatDemo
  \/ ChatDemoTimeout
  \/ ChatDemoInterval

(***************************************************************************)
(* ticker.js: handlers                                                     *)
(***************************************************************************)
TickerState ==
  [tickerItems |-> tickerItems, trackDom |-> trackDom,
   placeholders |-> placeholders, animationDuration |-> animationDuration,
   tickerBuilt |-> tickerBuilt]

SetTickerState(s) ==
  /\ tickerItems' = s.tickerItems
  /\ trackDom' = s.trackDom
  /\ placeholders' = s.placeholders
  /\ animationDuration' = s.animationDuration
  /\ tickerBuilt' = s.tickerBuilt

\* a span.ticker-separator (item records are numbered from 1)
SEPARATOR == 0

RECURSIVE withSeparators(_)
\* items.forEach: an item node, then a separator, for each record
withSeparators(items) ==
  IF items = <<>> THEN <<>>
  ELSE <<Head(items), SEPARATOR>> \o withSeparators(Tail(items))

\* updateScrollSpeed ignoring the number of items
updateScrollSpeed_Fixed(s) ==
  IF tickerTrack # NULL
  THEN [s EXCEPT !.animationDuration = SCROLL_SPEED]
  ELSE s

\* function updateScrollSpeed()
updateScrollSpeed(s) ==
  IF tickerTrack # NULL
  THEN [s EXCEPT !.animationDuration = Max(SCROLL_SPEED, Len(s.tickerItems) * 2)]
  ELSE s

\* renderTicker without the second items.forEach
renderTicker_Once(s, items) ==
  IF tickerTrack = NULL
  THEN s
  ELSE LET s1 == [s EXCEPT !.trackDom = <<>>]
       IN  IF Len(items) = 0
           THEN [s1 EXCEPT !.placeholders = @ + 1]
           ELSE updateScrollSpeed(
                  [s1 EXCEPT !.placeholders = IF @ > 0 THEN @ - 1 ELSE @,
                             !.trackDom = withSeparators(items)])

\* function renderTicker(items)
renderTicker(s, items) ==
  IF tickerTrack = NULL
  THEN s
  ELSE LET s1 == [s EXCEPT !.trackDom = <<>>]
       IN  IF Len(items) = 0
           THEN [s1 EXCEPT !.placeholders = @ + 1]
           ELSE updateScrollSpeed(
                  [s1 EXCEPT !.placeholders = IF @ > 0 THEN @ - 1 ELSE @,
                             !.trackDom = withSeparators(items) \o withSeparators(items)])

\* addTickerItem without the slice(0, MAX_ITEMS)
addTickerItem_NoLimit(s) ==
  LET itemData == s.tickerBuilt + 1
      s1 == [s EXCEPT !.tickerBuilt = itemData,
                      !.tickerItems = <<itemData>> \o @]
  IN  renderTicker(s1, s1.tickerItems)

\* addTickerItem with push() instead of unshift()
addTickerItem_Push(s) ==
  LET itemData == s.tickerBuilt + 1
      s1 == [s EXCEPT !.tickerBuilt = itemData,
                      !.tickerItems = Append(@, itemData)]
      s2 == IF Len(s1.tickerItems) > MAX_ITEMS
            THEN [s1 EXCEPT !.tickerItems = SubSeq(@, 1, MAX_ITEMS)]
            ELSE s1
  IN  renderTicker(s2, s2.tickerItems)

\* function addTickerItem(itemData)
addTickerItem(s) ==
  LET itemData == s.tickerBuilt + 1
      s1 == [s EXCEPT !.tickerBuilt = itemData,
                      !.tickerItems = <<itemData>> \o @]
      s2 == IF Len(s1.tickerItems) > MAX_ITEMS
            THEN [s1 EXCEPT !.tickerItems = SubSeq(@, 1, MAX_ITEMS)]
            ELSE s1
  IN  renderTicker(s2, s2.tickerItems)

\* clearTicker without the renderTicker call
clearTicker_NoRender(s) == [s EXCEPT !.tickerItems = <<>>]

\* function clearTicker()
clearTicker(s) == renderTicker([s EXCEPT !.tickerItems = <<>>], <<>>)

(***************************************************************************)
(* ticker.js: actions.  The demo generator reaches the ticker state only   *)
(* through addTickerItem.                                                  *)
(***************************************************************************)
\* function initTicker(), run once by onReady; the document may lack .ticker-track
InitTicker ==
  \E found \in {NULL, PRESENT} :
    /\ ~tickerReady
    /\ tickerReady' = TRUE
    /\ tickerTrack' = found
    /\ tickerDemoStart' = (found # NULL /\ DEMO_INTERVAL(TICKER_DEMO_INTERVAL) > 0)
    /\ lastOp' = Op("initTicker", found, 0)
    /\ UNCHANGED <<tickerItems, trackDom, placeholders, animationDuration,
                   tickerControlVars, tickerBuilt, headType, tickerDemoInterval, tickerIntervals,
                   alertVars, chatVars, config>>

\* history: whether an addTickerItem call made now goes over MAX_ITEMS
Truncates == IF Len(tickerItems) >= MAX_ITEMS THEN "truncate" ELSE ""

\* a call of window.addTickerItem / addTickerItem with itemData.type = type
AddTickerItem ==
  \E type \in InputTypes :
    /\ tickerBuilt < MaxTickerBuilt
    /\ SetTickerState(addTickerItem(TickerState))
    /\ headType' = type
    /\ lastOp' = Op("addTickerItem", Truncates, tickerBuilt + 1)
    /\ UNCHANGED <<tickerTrack, tickerControlVars, tickerReady, tickerDemoVars, alertVars, chatVars,
                   config>>

ClearTicker ==
  /\ placeholders < MaxPlaceholders
  /\ SetTickerState(clearTicker(TickerState))
  /\ headType' = NULL
  /\ lastOp' = Op("clearTicker", "", 0)
  /\ UNCHANGED <<tickerTrack, tickerControlVars, tickerReady, tickerDemoVars, alertVars, chatVars,
                 config>>

NextTicker ==
  \/ InitTicker
  \/ AddTickerItem
  \/ ClearTicker

SpecTicker == Init /\ [][NextTicker]_vars

(***************************************************************************)
(* ticker.js: demo generator                                               *)
(***************************************************************************)
TickerDemoState ==
  [ticker |-> TickerState, demoInterval |-> tickerDemoInterval,
   intervals |-> tickerIntervals]

SetTickerDemoState(d) ==
  /\ SetTickerState(d.ticker)
  /\ tickerDemoInterval' = d.demoInterval
  /\ tickerIntervals' = d.intervals

RECURSIVE addTickerItems(_, _)
\* DEMO_DATA.events.forEach(event => addTickerItem(event)), n events left
addTickerItems(s, n) ==
  IF n = 0 THEN s ELSE addTickerItems(addTickerItem(s), n - 1)

\* function startDemoMode() of ticker.js
tickerStartDemoMode(d) ==
  IF DEMO_INTERVAL(TICKER_DEMO_INTERVAL) > 0 /\ d.demoInterval = NULL
  THEN [d EXCEPT !.ticker = addTickerItems(@, Len(DEMO_EVENTS)),
                 !.demoInterval = PRESENT,
                 !.intervals = @ + 1]
  ELSE d

\* function stopDemoMode() of ticker.js
tickerStopDemoMode(d) ==
  IF d.demoInterval # NULL
  THEN [d EXCEPT !.demoInterval = NULL, !.intervals = @ - 1]
  ELSE d

\* the type of tickerItems[0] after a startDemoMode call
headTypeAfterStart ==
  IF DEMO_INTERVAL(TICKER_DEMO_INTERVAL) > 0 /\ tickerDemoInterval = NULL
  THEN DEMO_EVENTS[Len(DEMO_EVENTS)]
  ELSE headType

\* the setTimeout(startDemoMode, 1500) of initTicker fires
TickerDemoStartTimer ==
  /\ tickerDemoStart
  /\ tickerBuilt + Len(DEMO_EVENTS) <= MaxTickerBuilt
  /\ tickerDemoStart' = FALSE
  /\ SetTickerDemoState(tickerStartDemoMode(TickerDemoState))
  /\ headType' = headTypeAfterStart
  /\ lastOp' = Op("tickerDemoStartTimer", "", 0)
  /\ UNCHANGED <<tickerTrack, tickerControlVars, tickerReady, alertVars, chatVars, config>>

\* a call of window.startTickerDemo, which initTicker sets once it found the
\* track
StartTickerDemo ==
  /\ tickerTrack # NULL
  /\ tickerBuilt + Len(DEMO_EVENTS) <= MaxTickerBuilt
  /\ SetTickerDemoState(tickerStartDemoMode(TickerDemoState))
  /\ headType' = headTypeAfterStart
  /\ lastOp' = Op("startTickerDemo", "", 0)
  /\ UNCHANGED <<tickerTrack, tickerControlVars, tickerReady, tickerDemoStart, alertVars, chatVars,
                 config>>

\* a call of window.stopTickerDemo
StopTickerDemo ==
  /\ tickerTrack # NULL
  /\ SetTickerDemoState(tickerStopDemoMode(TickerDemoState))
  /\ lastOp' = Op("stopTickerDemo", Stops(tickerDemoInterval), 0)
  /\ UNCHANGED <<tickerTrack, tickerControlVars, tickerReady, tickerDemoStart, headType, alertVars,
                 chatVars, config>>

\* the setInterval callback of startDemoMode fires: generateDemoEvent()
TickerDemoInterval ==
  \E type \in DemoEventTypes :
    /\ tickerIntervals > 0
    /\ tickerBuilt < MaxTickerBuilt
    /\ SetTickerState(addTickerItem(TickerState))
    /\ headType' = type
    /\ lastOp' = Op("tickerDemoInterval", Truncates, tickerBuilt + 1)
    /\ UNCHANGED <<tickerTrack, tickerControlVars, tickerReady, tickerDemoVars, alertVars, chatVars,
                   config>>

NextTickerDemo ==
  \/ InitTicker
  \/ TickerDemoStartTimer
  \/ StartTickerDemo
  \/ StopTickerDemo
  \/ TickerDemoInterval

(***************************************************************************)
(* The three widgets together.  Each widget is a document of its own, so a *)
(* widget takes steps only while the other two are as they were loaded: a  *)
(* behaviour is a behaviour of one widget.                                 *)
(***************************************************************************)
AlertsUntouched ==
  /\ activeAlerts = <<>> /\ alertQueue = <<>> /\ alertContainer = NULL
  /\ alertDom = <<>> /\ exiting = {} /\ timers = <<>>
  /\ alertDemoInterval = NULL /\ alertDemoStart = FALSE /\ created = 0
  /\ alertIntervals = 0
  /\ shown = <<>> /\ everQueued = {} /\ cleared = {}

ChatUntouched ==
  /\ chatMessages = <<>> /\ chatContainer = NULL /\ chatDom = <<>>
  /\ isAutoScrollEnabled /\ chatScrollTop = 0 /\ ~chatReady /\ chatBuilt = 0
  /\ chatDemoInterval = NULL /\ chatIntervals = 0 /\ ~chatDemoStart
  /\ chatDemoPending = 0

TickerUntouched ==
  /\ tickerItems = <<>> /\ tickerTrack = NULL /\ trackDom = <<>>
  /\ placeholders = 0 /\ animationDuration = 0 /\ ~tickerReady
  /\ tickerBuilt = 0 /\ headType = NULL
  /\ tickerDemoInterval = NULL /\ tickerIntervals = 0 /\ ~tickerDemoStart
  /\ trackClassList = {} /\ animationPlayState = UNSET

NextWidgets ==
  \/ ChatUntouched /\ TickerUntouched /\ Next
  \/ AlertsUntouched /\ TickerUntouched /\ NextChat
  \/ AlertsUntouched /\ ChatUntouched /\ NextTicker

SpecWidgets == Init /\ [][NextWidgets]_vars

\* the three widgets with their demo generators, as shipped or with
\* DEMO_INTERVAL edited to 0
NextDemo ==
  \/ ChatUntouched /\ TickerUntouched /\ Next
  \/ AlertsUntouched /\ TickerUntouched /\ NextChatDemo
  \/ AlertsUntouched /\ ChatUntouched /\ NextTickerDemo

SpecDemo == InitAnyConfig /\ [][NextDemo]_vars

(***************************************************************************)
(* Derived notions used by the properties                                  *)
(***************************************************************************)
\* the lifecycle stage of alert element a in a state with the given fields:
\* 0 not built, 1 queued, 2 active, 3 exiting, 4 removed
StageOf(a, c, q, act, ex) ==
  IF a > c THEN 0
  ELSE IF a \in Range(q) THEN 1
  ELSE IF a \in Range(act) THEN (IF a \in ex THEN 3 ELSE 2)
  ELSE 4

HasTimer(ts, kind, a) == \E i \in 1..Len(ts) : ts[i] = [kind |-> kind, alert |-> a]

\* the step is a call of createAlert, from outside or by generateDemoAlert
\* on the demo interval
IsCreateAlertStep ==
  lastOp'.op \in {"createAlert", "demoInterval"} /\ lastOp' # lastOp
IsLifetimeStep == lastOp'.op = "lifetimeTimer" /\ lastOp' # lastOp
IsExitStep == lastOp'.op = "exitTimer" /\ lastOp' # lastOp
IsClearStep == lastOp'.op = "clearAlerts"

(***************************************************************************)
(* C1: in every reachable state of the alert engine the Active Set holds   *)
(* at most MAX_ALERTS (3) alerts.                                          *)
(***************************************************************************)
C1_ActiveSetBounded == Len(activeAlerts) <= MAX_ALERTS

(***************************************************************************)
(* C2: alerts that went through the Pending Queue are displayed in the     *)
(* order they were submitted (element numbers follow submission order):    *)
(* the once-queued alerts appear in `shown` in increasing order, and no    *)
(* alert still waiting in the queue was submitted before a once-queued     *)
(* alert that has already been displayed.                                  *)
(***************************************************************************)
C2_QueueFIFO ==
  /\ \A i, j \in 1..Len(shown) :
       (i < j /\ shown[i] \in everQueued /\ shown[j] \in everQueued)
         => shown[i] < shown[j]
  /\ \A x \in Range(alertQueue) :
       \A y \in Range(shown) \cap everQueued : y < x

\* two queued alerts have both been promoted, in a run that also had a
\* clearAlerts leaving stale timers behind
C2_Witness ==
  /\ Cardinality(Range(shown) \cap everQueued) >= 2
  /\ cleared # {}
  /\ Len(activeAlerts) > MAX_ALERTS

(***************************************************************************)
(* C3: admission policy of createAlert for a registered type with the      *)
(* container present: below capacity the new alert is appended to the      *)
(* Active Set and attached, the queue unchanged; otherwise it is appended  *)
(* to the tail of the Pending Queue and the Active Set is unchanged.       *)
(***************************************************************************)
C3_Admission ==
  [][(IsCreateAlertStep /\ lastOp'.type \in AlertTypes /\ alertContainer = PRESENT)
       => LET a == lastOp'.alert
          IN  IF Len(activeAlerts) < MAX_ALERTS
              THEN /\ activeAlerts' = Append(activeAlerts, a)
                   /\ a \in Range(alertDom')
                   /\ alertQueue' = alertQueue
              ELSE /\ alertQueue' = Append(alertQueue, a)
                   /\ activeAlerts' = activeAlerts
                   /\ alertDom' = alertDom]_vars

\* a createAlert call has just queued its alert behind another queued alert
C3_Witness ==
  /\ lastOp.op = "createAlert"
  /\ Len(alertQueue) >= 2
  /\ alertQueue[Len(alertQueue)] = lastOp.alert
  /\ Len(activeAlerts) = MAX_ALERTS

(***************************************************************************)
(* C4: a lifetime or exit timer of an alert that clearAlerts removed never *)
(* changes activeAlerts or alertQueue when it fires.                       *)
(***************************************************************************)
C4_ClearedTimersInert ==
  [][((IsLifetimeStep \/ IsExitStep) /\ lastOp'.alert \in cleared)
       => (activeAlerts' = activeAlerts /\ alertQueue' = alertQueue)]_vars

C7_ClearEmpties ==
  [][IsClearStep =>
       /\ activeAlerts' = <<>>
       /\ alertQueue' = <<>>
       /\ \A a \in Range(activeAlerts) : a \notin Range(alertDom')]_vars

\* clearAlerts has just removed an alert whose exit timer is still pending,
\* together with a queued alert
C7_Witness ==
  /\ lastOp.op = "clearAlerts"
  /\ activeAlerts = <<>>
  /\ \E i \in 1..Len(timers) : timers[i].kind = "exit" /\ timers[i].alert \in cleared
  /\ \E a \in everQueued : a \notin Range(shown)

(***************************************************************************)
(* C8: createAlert with a type outside the registry {follow, subscribe,    *)
(* donation, cheer} leaves the Active Set, the Pending Queue, the          *)
(* container and the pending timers unchanged.                             *)
(***************************************************************************)
C8_UnknownTypeNoOp ==
  [][(IsCreateAlertStep /\ lastOp'.type \notin AlertTypes)
       => UNCHANGED <<activeAlerts, alertQueue, alertDom, timers>>]_vars

(***************************************************************************)
(* C9: with a widget's display surface missing (alertContainer null, or    *)
(* initChat / initTicker having found no container), a call of its inbound *)
(* event API (createAlert, addChatLine, addTickerItem) leaves that         *)
(* widget's Active Set, Pending Queue and Backing List unchanged.          *)
(***************************************************************************)
C9_MissingSurfaceNoOp ==
  [][/\ (IsCreateAlertStep /\ alertContainer = NULL)
          => UNCHANGED <<activeAlerts, alertQueue>>
     /\ (lastOp'.op = "addChatLine" /\ lastOp' # lastOp
           /\ chatReady /\ chatContainer = NULL)
          => UNCHANGED chatMessages
     /\ (lastOp'.op = "addTickerItem" /\ lastOp' # lastOp
           /\ tickerReady /\ tickerTrack = NULL)
          => UNCHANGED tickerItems]_vars

(***************************************************************************)
(* C10: after any sequence of addChatLine, addSystemMessage and clearChat  *)
(* calls the chat Backing List holds at most MAX_MESSAGES (50) entries.    *)
(***************************************************************************)
C10_ChatBounded == Len(chatMessages) <= MAX_MESSAGES

\* an addSystemMessage call on a full list has just returned
C10_Witness ==
  /\ lastOp.op = "addSystemMessage"
  /\ chatBuilt > MAX_MESSAGES
  /\ Len(chatMessages) = MAX_MESSAGES

\* the step is a call of addChatLine, directly or through addSystemMessage
IsAddChatStep ==
  lastOp'.op \in {"addChatLine", "addSystemMessage"} /\ lastOp' # lastOp

(***************************************************************************)
(* C11: chat eviction is FIFO and happens only over capacity.  An          *)
(* addChatLine call (container present) on a list of fewer than 50         *)
(* messages appends the new message to the list and to the container and   *)
(* removes nothing; on a list of 50 it removes exactly the head of the     *)
(* list, from the list and from the container, and appends the new one,    *)
(* the others keeping their order.                                         *)
(***************************************************************************)
C11_ChatEvictionFIFO ==
  [][(IsAddChatStep /\ chatContainer = PRESENT)
       => LET m == lastOp'.alert
          IN  IF Len(chatMessages) < MAX_MESSAGES
              THEN /\ chatMessages' = Append(chatMessages, m)
                   /\ chatDom' = Append(chatDom, m)
              ELSE /\ chatMessages' = Append(Tail(chatMessages), m)
                   /\ chatDom' = Append(Without(chatDom, Head(chatMessages)), m)
                   /\ Head(chatMessages) \notin Range(chatDom')
                   /\ Len(chatMessages') = MAX_MESSAGES]_vars

\* the 52nd addChatLine has just evicted the second message
C11_Witness ==
  /\ lastOp = Op("addChatLine", "evict", MAX_MESSAGES + 2)
  /\ Len(chatMessages) = MAX_MESSAGES
  /\ chatMessages[1] = 3
  /\ chatMessages[MAX_MESSAGES] = MAX_MESSAGES + 2

(***************************************************************************)
(* C12: the children of the chat container are exactly the entries of      *)
(* chatMessages, in the same order, in every reachable state, and after an *)
(* addChatLine call the message it appended is the last child.             *)
(***************************************************************************)
C12_ChatDomMirrorsList ==
  /\ chatDom = chatMessages
  /\ (lastOp.op \in {"addChatLine", "addSystemMessage"} /\ chatContainer = PRESENT)
       => (chatDom # <<>> /\ chatDom[Len(chatDom)] = lastOp.alert)

\* messages were added, cleared and added again, the last call evicting
C12_Witness ==
  /\ lastOp.op = "addChatLine"
  /\ lastOp.type = "evict"
  /\ Len(chatDom) = MAX_MESSAGES
  /\ chatDom[1] = 2
  /\ chatBuilt = MAX_MESSAGES + 1

renderedItems(dom) == SelectSeq(dom, LAMBDA n : n # SEPARATOR)

\* the step is a call of addTickerItem
IsAddTickerStep == lastOp'.op = "addTickerItem" /\ lastOp' # lastOp

\* the step is a call of addTickerItem or clearTicker with the track present,
\* that is a renderTicker call that gets past its guard
IsRenderStep ==
  /\ tickerTrack = PRESENT
  /\ \/ IsAddTickerStep
     \/ lastOp'.op = "clearTicker" /\ <<lastOp, placeholders>>' # <<lastOp, placeholders>>

(***************************************************************************)
(* C14: after any sequence of addTickerItem and clearTicker calls,         *)
(* tickerItems holds at most MAX_ITEMS (20) entries.                       *)
(***************************************************************************)
C14_TickerBounded == Len(tickerItems) <= MAX_ITEMS

\* the 21st item has just been added to a full list
C14_Witness ==
  /\ lastOp = Op("addTickerItem", "truncate", MAX_ITEMS + 1)
  /\ Len(tickerItems) = MAX_ITEMS

(***************************************************************************)
(* C15: addTickerItem(x) puts x at index 0, keeps the items held before    *)
(* behind it in their order and drops entries only from the tail when the  *)
(* result would exceed 20; so the list is always the most recently added   *)
(* items, at most 20 of them, newest first.                                *)
(***************************************************************************)
C15_TickerNewestFirst ==
  /\ [](\A i \in 1..Len(tickerItems) : tickerItems[i] = tickerBuilt - i + 1)
  /\ [][IsAddTickerStep
          => LET x == lastOp'.alert
                 all == <<x>> \o tickerItems
             IN  /\ tickerItems'[1] = x
                 /\ tickerItems' = SubSeq(all, 1, Min(Len(all), MAX_ITEMS))]_vars

\* the 22nd item was added to a full list: items 3..22 are held, 22 first
C15_Witness ==
  /\ lastOp = Op("addTickerItem", "truncate", MAX_ITEMS + 2)
  /\ Len(tickerItems) = MAX_ITEMS
  /\ tickerItems[1] = MAX_ITEMS + 2
  /\ tickerItems[MAX_ITEMS] = 3

(***************************************************************************)
(* C16: after an addTickerItem or clearTicker call with the track present, *)
(* the items in the track are two concatenated copies of tickerItems, in   *)
(* list order; a list of one item is rendered as that item twice.          *)
(***************************************************************************)
C16_TrackIsTwoCopies ==
  (lastOp.op \in {"addTickerItem", "clearTicker"} /\ tickerTrack = PRESENT)
    => /\ renderedItems(trackDom) = tickerItems \o tickerItems
       /\ trackDom = withSeparators(tickerItems) \o withSeparators(tickerItems)

\* a list of one item, rendered after a clear: item, separator, item, separator
C16_Witness ==
  /\ lastOp.op = "addTickerItem"
  /\ tickerTrack = PRESENT
  /\ tickerItems = <<3>>
  /\ trackDom = <<3, SEPARATOR, 3, SEPARATOR>>

(***************************************************************************)
(* C17 as stated: after every renderTicker call, the one clearTicker makes *)
(* on the empty list included, the track's animation duration is           *)
(* max(SCROLL_SPEED, 2 * |tickerItems|) seconds.  It is stated for the     *)
(* renders that follow the first write of the duration; before that write  *)
(* the duration is the style sheet's.                                      *)
(***************************************************************************)
C17_DurationEveryRender ==
  [][(IsRenderStep /\ animationDuration # 0)
       => animationDuration' = Max(SCROLL_SPEED, 2 * Len(tickerItems'))]_vars

(***************************************************************************)
(* C17 amended: a renderTicker call on a non-empty list sets the duration  *)
(* to max(SCROLL_SPEED, 2 * |tickerItems|) seconds; a renderTicker call on *)
(* the empty list leaves the duration as it was.                           *)
(***************************************************************************)
C17_DurationOnNonEmptyRender ==
  [][IsRenderStep
       => IF tickerItems' # <<>>
          THEN animationDuration' = Max(SCROLL_SPEED, 2 * Len(tickerItems'))
          ELSE animationDuration' = animationDuration]_vars

\* the list was cleared and the duration is still the one of a long list
C17_Witness ==
  /\ lastOp.op = "clearTicker"
  /\ tickerTrack = PRESENT
  /\ tickerItems = <<>>
  /\ animationDuration > SCROLL_SPEED

(***************************************************************************)
(* C18: after clearTicker returns with the track present, tickerItems is   *)
(* empty, the track holds no items and a "No recent events" placeholder    *)
(* is shown.                                                               *)
(***************************************************************************)
C18_ClearTickerEmpties ==
  (lastOp.op = "clearTicker" /\ tickerTrack = PRESENT)
    => /\ tickerItems = <<>>
       /\ trackDom = <<>>
       /\ placeholders >= 1

\* a ticker that rendered a full list has been cleared
C18_Witness ==
  /\ lastOp.op = "clearTicker"
  /\ tickerTrack = PRESENT
  /\ tickerBuilt >= MAX_ITEMS
  /\ animationDuration = 2 * MAX_ITEMS
  /\ trackDom = <<>>
  /\ placeholders = 1

(***************************************************************************)
(* C19: clearAlerts and clearChat are idempotent.  From every reachable    *)
(* state, a second call right after the first changes nothing: the active  *)
(* alerts, the queue, the chat list and both containers' children are      *)
(* empty after one call and after two (and the rest of the widget state is *)
(* the same after two calls as after one).                                 *)
(***************************************************************************)
C19_ClearIdempotent ==
  LET a1 == clearAlerts(AlertState)
      a2 == clearAlerts(a1)
      c1 == clearChat(ChatState)
      c2 == clearChat(c1)
  IN  /\ a1.activeAlerts = <<>> /\ a1.alertQueue = <<>> /\ a1.alertDom = <<>>
      /\ a2 = a1
      /\ c1.chatMessages = <<>> /\ c1.chatDom = <<>>
      /\ c2 = c1

\* clearAlerts has emptied a full display with alerts waiting, their timers
\* are still pending, and calling it again changes nothing
C19_Witness ==
  /\ lastOp.op = "clearAlerts"
  /\ Cardinality(cleared) >= MAX_ALERTS
  /\ everQueued # {}
  /\ timers # <<>>
  /\ activeAlerts = <<>>
  /\ clearAlerts(AlertState) = AlertState

(***************************************************************************)
(* C20: clearTicker is idempotent.  From every reachable state, a second   *)
(* call right after the first leaves tickerItems, the track's children and *)
(* the "No recent events" placeholders under the track's parent as the     *)
(* first call left them.                                                   *)
(***************************************************************************)
C20_ClearTickerIdempotent ==
  LET t1 == clearTicker(TickerState)
      t2 == clearTicker(t1)
  IN  /\ t2.tickerItems = t1.tickerItems
      /\ t2.trackDom = t1.trackDom
      /\ t2.placeholders = t1.placeholders

(***************************************************************************)
(* C21: clearChat empties chatMessages and the container in one step.  In  *)
(* no reachable state is one of the two empty and the other not, and in    *)
(* the state clearChat returns in both are empty.                          *)
(***************************************************************************)
C21_ClearChatAtomic ==
  /\ (chatMessages = <<>>) <=> (chatDom = <<>>)
  /\ lastOp.op = "clearChat" => (chatMessages = <<>> /\ chatDom = <<>>)

\* clearChat has emptied a chat that had gone through an eviction
C21_Witness ==
  /\ lastOp.op = "clearChat"
  /\ chatContainer = PRESENT
  /\ chatBuilt > MAX_MESSAGES
  /\ chatScrollTop = 0
  /\ chatMessages = <<>>
  /\ chatDom = <<>>

(***************************************************************************)
(* C22: the widgets differ on a type outside the icon registry and each    *)
(* keeps its behaviour.  addTickerItem puts the record at the front of     *)
(* tickerItems and, with the track present, renders it first with the      *)
(* default icon; createAlert with such a type admits no alert, neither to  *)
(* the active alerts nor to the queue.                                     *)
(***************************************************************************)
C22_UnknownTypePerWidget ==
  /\ (lastOp.op = "addTickerItem" /\ headType \notin EventTypes)
       => /\ tickerItems # <<>>
          /\ tickerItems[1] = lastOp.alert
          /\ tickerTrack = PRESENT
               => /\ trackDom # <<>>
                  /\ trackDom[1] = lastOp.alert
                  /\ createTickerItem(headType).icon = DEFAULT_ICON
  /\ (lastOp.op = "createAlert" /\ lastOp.type \notin EventTypes)
       => lastOp.alert \notin Range(activeAlerts) \cup Range(alertQueue)

\* the alert elements one behaviour can build
Alerts == 1..MaxCreated

(***************************************************************************)
(* C23: with timers that eventually fire, every alert that enters          *)
(* activeAlerts is eventually out of activeAlerts and out of the           *)
(* container, whatever else is submitted and whether or not clearAlerts is *)
(* called.                                                                 *)
(***************************************************************************)
C23_ActiveEventuallyRemoved ==
  \A a \in Alerts :
    (a \in Range(activeAlerts))
      ~> (a \notin Range(activeAlerts) /\ a \notin Range(alertDom))

\* an alert that was displayed and never cleared has been retired by its
\* exit timer
C23_Witness ==
  /\ lastOp.op = "exitTimer"
  /\ lastOp.alert \in Range(shown) \ cleared
  /\ lastOp.alert \notin Range(activeAlerts)
  /\ lastOp.alert \notin Range(alertDom)
  /\ lastOp.alert \notin everQueued

(***************************************************************************)
(* C24: with timers that eventually fire, every alert placed on            *)
(* alertQueue is eventually displayed, unless clearAlerts dropped it from  *)
(* the queue first.                                                        *)
(***************************************************************************)
C24_QueuedEventuallyShown ==
  \A a \in Alerts :
    (a \in Range(alertQueue))
      ~> \/ a \in Range(shown)
         \/ lastOp.op = "clearAlerts" /\ a \notin Range(alertQueue)

\* an alert that waited on the queue has just been promoted by an exit timer
C24_Witness ==
  /\ lastOp.op = "exitTimer"
  /\ cleared = {}
  /\ shown # <<>>
  /\ shown[Len(shown)] \in everQueued
  /\ shown[Len(shown)] \in Range(activeAlerts)

\* lastOp of the calls that stop, and that start, a demo generator
StopDemoOps == {"stopDemoMode", "stopChatDemo", "stopTickerDemo"}
StartDemoOps == {"startDemoMode", "startChatDemo", "startTickerDemo"}
\* lastOp of the timer callbacks through which a demo generator submits events
DemoEventOps ==
  {"demoStartTimer", "demoInterval",
   "chatDemoStartTimer", "chatDemoTimeout", "chatDemoInterval",
   "tickerDemoStartTimer", "tickerDemoInterval"}
\* the widget's demoInterval variable holds an interval id
DemoRunning ==
  \/ alertDemoInterval # NULL
  \/ chatDemoInterval # NULL
  \/ tickerDemoInterval # NULL

(***************************************************************************)
(* C25: once a stop-demo call has returned, no further demo event is       *)
(* submitted unless the demo is started again by a call.  Stated for a     *)
(* stop call that found the demo running and for the step that follows it: *)
(* that step is not a timer callback of the demo generator.                *)
(***************************************************************************)
C25_StopEndsDemo ==
  [][(lastOp.op \in StopDemoOps /\ lastOp.type = "stopped")
       => lastOp'.op \notin DemoEventOps]_vars

(***************************************************************************)
(* C26: start and stop of the demo are idempotent.  In every state each    *)
(* widget has at most one live interval timer, the one its demoInterval    *)
(* variable names; a start call made while the demo runs, and a stop call  *)
(* made while it is stopped, change nothing.                               *)
(***************************************************************************)
C26_DemoControlsIdempotent ==
  /\ [](/\ alertIntervals = (IF alertDemoInterval # NULL THEN 1 ELSE 0)
        /\ chatIntervals = (IF chatDemoInterval # NULL THEN 1 ELSE 0)
        /\ tickerIntervals = (IF tickerDemoInterval # NULL THEN 1 ELSE 0))
  /\ [][(lastOp'.op \in StartDemoOps /\ DemoRunning)
          => UNCHANGED <<alertVars, chatVars, tickerVars>>]_vars
  /\ [][(lastOp'.op \in StopDemoOps /\ ~DemoRunning)
          => UNCHANGED <<alertVars, chatVars, tickerVars>>]_vars

\* startDemoMode was called while the demo started by initAlerts' timer was
\* running: one interval, and only the alert that timer submitted
C26_Witness ==
  /\ lastOp.op = "startDemoMode"
  /\ alertContainer = PRESENT
  /\ ~alertDemoStart
  /\ alertDemoInterval # NULL
  /\ alertIntervals = 1
  /\ created = 1
  /\ shown = <<1>>

(***************************************************************************)
(* C27: with DEMO_INTERVAL configured as 0, neither initialisation nor a   *)
(* start-demo call creates a demo timer or submits a demo event: no        *)
(* interval, no pending start, no pending initial message, no step of the  *)
(* demo generator, and a start-demo call changes nothing.                  *)
(***************************************************************************)
C27_ZeroIntervalDisablesDemo ==
  /\ [](demoDisabled
         => /\ alertDemoInterval = NULL /\ alertIntervals = 0 /\ ~alertDemoStart
            /\ chatDemoInterval = NULL /\ chatIntervals = 0 /\ ~chatDemoStart
            /\ chatDemoPending = 0
            /\ tickerDemoInterval = NULL /\ tickerIntervals = 0 /\ ~tickerDemoStart
            /\ lastOp.op \notin DemoEventOps)
  /\ [][(demoDisabled /\ lastOp'.op \in StartDemoOps)
          => UNCHANGED <<alertVars, chatVars, tickerVars>>]_vars

\* with DEMO_INTERVAL 0 the ticker was initialised on a document with a track
\* and startTickerDemo was called: no item, no timer
C27_Witness ==
  /\ demoDisabled
  /\ lastOp.op = "startTickerDemo"
  /\ tickerTrack = PRESENT
  /\ tickerItems = <<>>
  /\ tickerIntervals = 0

(***************************************************************************)
(* alerts.js: sound playback, for a configuration that registers a sound   *)
(***************************************************************************)
\* what the browser does with new Audio(path) and audio.play()
AudioOutcomes == {"plays", "constructThrows", "playThrows", "playRejects"}

\* ALERT_CONFIG.types[type].sound: null as shipped, or a path set by the user;
\* the object found under an inherited key has no sound property
SoundPaths == {NULL, "follow.mp3"}
configSound(type, sound) == IF type \in AlertTypes THEN sound ELSE NULL

\* playAlertSound without the try/catch and without the .catch handler
playAlertSound_NoCatch(outcome) ==
  [thrown |-> outcome \in {"constructThrows", "playThrows"},
   unhandledRejection |-> outcome = "playRejects"]

\* function playAlertSound(soundPath): what leaves the function. An exception
\* raised in the try block is caught and logged; a rejection of the promise of
\* play() is taken by its .catch handler and logged.
playAlertSound(outcome) ==
  LET raisedInTry == outcome \in {"constructThrows", "playThrows"}
      rejected == outcome = "playRejects"
      caught == raisedInTry
      handled == rejected
  IN  [thrown |-> raisedInTry /\ ~caught,
       unhandledRejection |-> rejected /\ ~handled]

\* function createAlert(alertData) with its last statement,
\* if (config.sound) playAlertSound(config.sound): the state it leaves behind
\* and what reaches its caller
createAlertSound(s, type, sound, outcome) ==
  LET admitted == createAlert(s, type)
      played == IF typesLookup(type) # "undefined"
                   /\ configSound(type, sound) # NULL
                THEN playAlertSound(outcome)
                ELSE [thrown |-> FALSE, unhandledRejection |-> FALSE]
  IN  [state |-> admitted, thrown |-> played.thrown,
       unhandledRejection |-> played.unhandledRejection]

\* a call of window.createAlert under a configuration with or without a sound
CreateAlertSound ==
  \E type \in InputTypes, sound \in SoundPaths, outcome \in AudioOutcomes :
    LET r == createAlertSound(AlertState, type, sound, outcome)
    IN  /\ created < MaxCreated
        /\ SetAlertState(r.state)
        /\ lastOp' = [op |-> "createAlertSound", type |-> type,
                      alert |-> created + 1,
                      sound |-> configSound(type, sound),
                      outcome |-> IF configSound(type, sound) # NULL
                                  THEN outcome ELSE "silent",
                      thrown |-> r.thrown,
                      unhandledRejection |-> r.unhandledRejection]
        /\ UNCHANGED <<alertContainer, alertDemoStart, chatVars, tickerVars,
                       config>>

NextSound ==
  \/ InitAlerts
  \/ CreateAlertSound
  \/ LifetimeTimer
  \/ ExitTimer
  \/ ClearAlerts

SpecSound == Init /\ [][NextSound]_vars

(***************************************************************************)
(* C28: for an alert type with a configured sound, whatever the playback   *)
(* does (plays, construction throws, play() throws, play() rejects),       *)
(* nothing reaches the caller of createAlert, and the alert is admitted    *)
(* exactly as when the sound plays: on a document with the container,      *)
(* displayed if fewer than MAX_ALERTS alerts were active and appended to   *)
(* the pending queue otherwise.                                            *)
(***************************************************************************)
C28_SoundBestEffort ==
  [][(lastOp'.op = "createAlertSound" /\ lastOp'.sound # NULL)
       => /\ ~lastOp'.thrown
          /\ ~lastOp'.unhandledRejection
          /\ alertContainer # NULL
               => IF Len(activeAlerts) < MAX_ALERTS
                  THEN /\ activeAlerts' = Append(activeAlerts, lastOp'.alert)
                       /\ alertQueue' = alertQueue
                  ELSE /\ activeAlerts' = activeAlerts
                       /\ alertQueue' = Append(alertQueue, lastOp'.alert)
          /\ \A o \in AudioOutcomes :
               createAlertSound(AlertState, lastOp'.type, lastOp'.sound, o).state
                 = createAlertSound(AlertState, lastOp'.type, lastOp'.sound,
                                    "plays").state]_vars

\* an alert whose sound could not be constructed was queued behind a full
\* active set
C28_Witness ==
  /\ lastOp.op = "createAlertSound"
  /\ lastOp.sound # NULL
  /\ lastOp.outcome = "constructThrows"
  /\ Len(activeAlerts) = MAX_ALERTS
  /\ alertQueue # <<>>
  /\ alertQueue[Len(alertQueue)] = lastOp.alert

(***************************************************************************)
(* shared.js: text helpers. A text is a sequence of characters.            *)
(***************************************************************************)
\* longest message text handed to a handler
MaxLen == 2
\* characters of message texts: a letter and the two characters escapeHtml
\* rewrites that a message can use to carry markup
MessageChars == {"a", "<", "&"}
Messages == UNION {[1..n -> MessageChars] : n \in 0..MaxLen}

Digit == <<"0", "1", "2", "3", "4", "5", "6", "7", "8", "9">>

RECURSIVE Flatten(_)
Flatten(texts) ==
  IF texts = <<>> THEN <<>> ELSE Head(texts) \o Flatten(Tail(texts))

\* Number.prototype.toString() of a natural number
RECURSIVE toString(_)
toString(n) ==
  IF n < 10 THEN <<Digit[n + 1]>>
  ELSE toString(n \div 10) \o <<Digit[(n % 10) + 1]>>

\* function escapeHtml(text): div.textContent = text; return div.innerHTML
escapeChar(c) ==
  CASE c = "&" -> <<"&", "a", "m", "p", ";">>
    [] c = "<" -> <<"&", "l", "t", ";">>
    [] c = ">" -> <<"&", "g", "t", ";">>
    [] OTHER -> <<c>>

escapeHtml(text) == Flatten([i \in 1..Len(text) |-> escapeChar(text[i])])

\* function formatNumber(num), for a natural number:
\* num.toString().replace(/\B(?=(\d{3})+(?!\d))/g, ',')
formatNumber(num) ==
  LET digits == toString(num)
      n == Len(digits)
  IN  Flatten([i \in 1..n |->
                 IF i > 1 /\ (n - i + 1) % 3 = 0
                 THEN <<",", digits[i]>>
                 ELSE <<digits[i]>>])

\* amount.toFixed(2), for an amount given in thousandths that is not half-way
\* between two hundredths
toFixed2(amount) ==
  LET magnitude == IF amount < 0 THEN 0 - amount ELSE amount
      hundredths == (magnitude + 5) \div 10
      fraction == hundredths % 100
      sign == IF amount < 0 /\ hundredths > 0 THEN <<"-">> ELSE <<>>
  IN  sign \o toString(hundredths \div 100)
           \o <<".", Digit[(fraction \div 10) + 1], Digit[(fraction % 10) + 1]>>

\* function formatCurrency(amount, currency = '$')
formatCurrency(amount) == <<"$">> \o toFixed2(amount)

(***************************************************************************)
(* alerts.js: the element createAlert builds                               *)
(***************************************************************************)
UNDEFINED == "undefined"

\* ALERT_CONFIG.types: the header of each registered type
ALERT_TYPES ==
  [follow |-> [header |-> "New Follower"],
   subscribe |-> [header |-> "New Subscriber"],
   donation |-> [header |-> "Donation"],
   cheer |-> [header |-> "Bits Cheered"]]

\* ALERT_CONFIG.types[type].header; the object found under an inherited key
\* has no header property
configHeader(type) ==
  IF type \in AlertTypes THEN ALERT_TYPES[type].header ELSE UNDEFINED

\* createElement(tag, {text}): textContent is set only for a truthy text
textContent(text) == IF text = UNDEFINED THEN "" ELSE text

\* amounts in thousandths of a dollar: 0, 0.004, 0.999, 4.50, 25, 1234.56, -5
Amounts == {0, 4, 999, 4500, 25000, 1234560, 0 - 5000}
BitsAmounts == {0, 5, 1000}
MonthsAmounts == {1, 3}

AlertData ==
  [type : InputTypes, amount : Amounts, bits : BitsAmounts,
   months : MonthsAmounts]

\* function createAlert(alertData): the children of the alert-content element
\* (icon and username left out)
alertContent(alertData) ==
  [header |-> textContent(configHeader(alertData.type)),
   subMessages |->
     IF alertData.type = "subscribe" /\ alertData.months > 1
     THEN <<toString(alertData.months) \o <<" ", "m", "o", "n", "t", "h", "s", "!">>>>
     ELSE <<>>,
   amounts |->
     (IF alertData.type = "donation" /\ alertData.amount > 0
      THEN <<formatCurrency(alertData.amount)>>
      ELSE <<>>)
     \o (IF alertData.type = "cheer" /\ alertData.bits > 0
         THEN <<formatNumber(alertData.bits) \o <<" ", "b", "i", "t", "s">>>>
         ELSE <<>>)]

\* a call of window.createAlert, with the element it built
CreateAlertContent ==
  \E alertData \in AlertData :
    /\ created < MaxCreated
    /\ SetAlertState(createAlert(AlertState, alertData.type))
    /\ lastOp' = [op |-> "createAlert", type |-> alertData.type,
                  alert |-> created + 1, data |-> alertData,
                  accepted |-> typesLookup(alertData.type) # "undefined",
                  content |-> alertContent(alertData)]
    /\ UNCHANGED <<alertContainer, alertDemoStart, chatVars, tickerVars, config>>

NextAlertContent ==
  \/ InitAlerts
  \/ CreateAlertContent

SpecAlertContent == Init /\ [][NextAlertContent]_vars

(***************************************************************************)
(* chat.js: the body addChatLine builds                                    *)
(***************************************************************************)
Cheered == <<"C", "h", "e", "e", "r", "e", "d", " ">>
BitsColon == <<" ", "b", "i", "t", "s", ":", " ">>

MessageData == [message : Messages, cheer : BOOLEAN, bits : BitsAmounts]

\* processedMessage with the prefix added whenever the cheer flag is set
processedMessage_AnyCheer(messageData) ==
  IF messageData.cheer
  THEN Cheered \o formatNumber(messageData.bits) \o BitsColon
               \o escapeHtml(messageData.message)
  ELSE escapeHtml(messageData.message)

\* addChatLine: let processedMessage = escapeHtml(message);
\* if (cheer && bits > 0) processedMessage = `Cheered ... bits: ...`
processedMessage(messageData) ==
  IF messageData.cheer /\ messageData.bits > 0
  THEN Cheered \o formatNumber(messageData.bits) \o BitsColon
               \o escapeHtml(messageData.message)
  ELSE escapeHtml(messageData.message)

\* a call of window.addChatLine, with the innerHTML of its message-content
AddChatLineContent ==
  \E messageData \in MessageData :
    /\ chatBuilt < MaxChatBuilt
    /\ SetChatState(addChatLine(ChatState))
    /\ lastOp' = [op |-> "addChatLine", type |-> Evicts, alert |-> chatBuilt + 1,
                  data |-> messageData,
                  rendered |-> chatContainer # NULL,
                  innerHTML |-> processedMessage(messageData)]
    /\ UNCHANGED <<chatContainer, isAutoScrollEnabled, chatReady, chatDemoVars,
                   alertVars, tickerVars, config>>

NextChatContent ==
  \/ InitChat
  \/ AddChatLineContent

SpecChatContent == Init /\ [][NextChatContent]_vars

(***************************************************************************)
(* C29: every accepted alert (one that createAlert displayed or queued)    *)
(* shows the header registered for its type, 'Donation' for a donation; a  *)
(* donation with amount > 0 shows one amount element whose text is '$',    *)
(* the whole dollars, '.', and two decimals, the value being the amount    *)
(* to the nearest cent ('$25.00' for 25); a donation with amount 0 shows   *)
(* no amount element.                                                      *)
(***************************************************************************)
C29_AlertContent ==
  (/\ lastOp.op = "createAlert"
   /\ lastOp.alert \in Range(activeAlerts) \cup Range(alertQueue))
    => LET data == lastOp.data
           content == lastOp.content
       IN  /\ data.type \in AlertTypes
           /\ content.header = ALERT_TYPES[data.type].header
           /\ data.type = "donation" => content.header = "Donation"
           /\ (data.type = "donation" /\ data.amount > 0)
                => /\ Len(content.amounts) = 1
                   /\ \E h \in {data.amount \div 10, (data.amount \div 10) + 1} :
                        /\ (10 * h) - data.amount \in (0 - 5)..5
                        /\ content.amounts[1]
                             = <<"$">> \o toString(h \div 100)
                                 \o <<".", Digit[((h % 100) \div 10) + 1],
                                      Digit[(h % 10) + 1]>>
           /\ (data.type = "donation" /\ data.amount = 25000)
                => content.amounts = << <<"$", "2", "5", ".", "0", "0">> >>
           /\ (data.type = "donation" /\ data.amount = 0)
                => content.amounts = <<>>

\* contentElement.innerHTML = processedMessage: the text the parser yields for
\* markup made of characters and the entities &amp; &lt; &gt;
RECURSIVE renderedText(_)
renderedText(html) ==
  LET StartsWith(p) == Len(html) >= Len(p) /\ SubSeq(html, 1, Len(p)) = p
      Rest(p) == SubSeq(html, Len(p) + 1, Len(html))
  IN  IF html = <<>> THEN <<>>
      ELSE IF StartsWith(escapeChar("&")) THEN <<"&">> \o renderedText(Rest(escapeChar("&")))
      ELSE IF StartsWith(escapeChar("<")) THEN <<"<">> \o renderedText(Rest(escapeChar("<")))
      ELSE IF StartsWith(escapeChar(">")) THEN <<">">> \o renderedText(Rest(escapeChar(">")))
      ELSE <<Head(html)>> \o renderedText(Tail(html))

C31_OnlyOwnTimersRetire ==
  [][\A a \in Range(activeAlerts) :
       /\ (a \notin exiting /\ a \in exiting')
            => (lastOp'.op = "lifetimeTimer" /\ lastOp'.alert = a)
       /\ (a \notin Range(activeAlerts')
             \/ (a \in Range(alertDom) /\ a \notin Range(alertDom')))
            => \/ lastOp'.op = "exitTimer" /\ lastOp'.alert = a /\ a \in exiting
               \/ lastOp'.op = "clearAlerts"]_vars

\* the exit timer of alert 1 has retired it while alerts 2 and 3, displayed
\* with it, stay active and attached and a later alert was promoted
C31_Witness ==
  /\ lastOp.op = "exitTimer"
  /\ lastOp.alert = 1
  /\ 1 \notin Range(activeAlerts)
  /\ {2, 3} \subseteq Range(activeAlerts) \cap Range(alertDom)
  /\ Len(activeAlerts) = MAX_ALERTS
  /\ cleared = {}

(***************************************************************************)
(* C32: a createAlert call of an accepted type made while the Active Set   *)
(* holds three alerts, at least one of them marked exiting, appends the    *)
(* new alert to the Pending Queue and leaves the Active Set and the        *)
(* container as they were.                                                 *)
(***************************************************************************)
C32_ExitingHoldsSlot ==
  [][(/\ IsCreateAlertStep
      /\ typesLookup(lastOp'.type) # "undefined"
      /\ Len(activeAlerts) = MAX_ALERTS
      /\ Range(activeAlerts) \cap exiting # {})
       => /\ alertQueue' = Append(alertQueue, lastOp'.alert)
          /\ activeAlerts' = activeAlerts
          /\ alertDom' = alertDom]_vars

\* alert 4 was submitted while alerts 1, 2, 3 were active and alert 1 was
\* exiting: it waits in the queue
C32_Witness ==
  /\ lastOp.op = "createAlert"
  /\ lastOp.alert = 4
  /\ activeAlerts = <<1, 2, 3>>
  /\ 1 \in exiting
  /\ alertQueue = <<4>>

(***************************************************************************)
(* C33: whenever the Pending Queue is non-empty the Active Set holds at    *)
(* least MAX_ALERTS alerts; and a createAlert call made while an alert is  *)
(* queued puts the new alert behind it in the queue, not on display.       *)
(***************************************************************************)
C33_NoFreeSlotWhileQueued ==
  /\ [](alertQueue # <<>> => Len(activeAlerts) >= MAX_ALERTS)
  /\ [][(/\ IsCreateAlertStep
         /\ typesLookup(lastOp'.type) # "undefined"
         /\ alertQueue # <<>>)
          => /\ alertQueue' = Append(alertQueue, lastOp'.alert)
             /\ lastOp'.alert \notin Range(activeAlerts')]_vars

\* the exit timer of alert 1 promoted alert 4 while alert 5 stays queued
\* behind a full Active Set
C33_Witness ==
  /\ lastOp.op = "exitTimer"
  /\ lastOp.alert = 1
  /\ activeAlerts = <<2, 3, 4>>
  /\ alertQueue = <<5>>

(***************************************************************************)
(* C34: in every reachable state the alert nodes attached to the alert     *)
(* container are exactly the alerts of activeAlerts, in the same order.    *)
(***************************************************************************)
C34_ContainerMirrorsActive == alertDom = activeAlerts

\* after a clear and the stale exit timer of the cleared alert 1, which
\* promoted alert 5, container and Active Set both hold alerts 2 to 5
C34_Witness ==
  /\ alertContainer = PRESENT
  /\ 1 \in cleared
  /\ lastOp.op = "exitTimer"
  /\ lastOp.alert = 1
  /\ Len(activeAlerts) > MAX_ALERTS
  /\ alertDom = activeAlerts

\* history: the alerts a clearAlerts call dropped from the Pending Queue
\* (queued once, no longer queued, never displayed)
Dropped ==
  {a \in everQueued : a \notin Range(alertQueue) /\ a \notin Range(shown)}

(***************************************************************************)
(* C35: a clearAlerts call leaves no alert active, attached or queued, and *)
(* no alert submitted before it is displayed after it: the alerts that     *)
(* were queued at the clear are dropped for good, the alerts that were     *)
(* active at the clear are never attached or made active again (their      *)
(* pending lifetime and exit timers included), and in every step an alert  *)
(* submitted earlier that is neither active nor queued stays so.           *)
(***************************************************************************)
C35_NothingSurvivesClear ==
  /\ [](\A a \in cleared \cup Dropped :
          /\ a \notin Range(activeAlerts)
          /\ a \notin Range(alertDom)
          /\ a \notin Range(alertQueue))
  /\ [][IsClearStep
          => /\ activeAlerts' = <<>> /\ alertDom' = <<>> /\ alertQueue' = <<>>
             /\ cleared' = cleared \cup Range(activeAlerts)
             /\ Dropped' = Dropped \cup Range(alertQueue)]_vars
  /\ [][LET gone == (1..created) \ (Range(activeAlerts) \cup Range(alertQueue))
         IN  gone \cap (Range(activeAlerts') \cup Range(alertQueue')
                                             \cup Range(alertDom')) = {}]_vars

\* alerts 1 to 3 were active and alert 4 queued at a clear; alert 5 came
\* after it, and the stale exit timer of alert 1 has fired: only alert 5 is
\* on display
C35_Witness ==
  /\ cleared = {1, 2, 3}
  /\ Dropped = {4}
  /\ lastOp.op = "exitTimer"
  /\ lastOp.alert = 1
  /\ activeAlerts = <<5>>
  /\ alertDom = <<5>>

(***************************************************************************)
(* C36: after every addTickerItem and clearTicker call on a document with  *)
(* the track, the 'No recent events' placeholder is present if and only if *)
(* tickerItems is empty, and there is at most one placeholder element.     *)
(***************************************************************************)
C36_OnePlaceholderIffEmpty ==
  (lastOp.op \in {"addTickerItem", "clearTicker"} /\ tickerTrack = PRESENT)
    => /\ placeholders <= 1
       /\ (placeholders >= 1) <=> (tickerItems = <<>>)

(***************************************************************************)
(* ticker.js: speed control                                                *)
(***************************************************************************)
TickerControlState ==
  [classList |-> trackClassList, animationPlayState |-> animationPlayState]

SetTickerControlState(c) ==
  /\ trackClassList' = c.classList
  /\ animationPlayState' = c.animationPlayState

\* arguments of setTickerSpeed: the three documented values and one that is
\* none of them
Speeds == {"slow", "normal", "fast", "turbo"}

\* setTickerSpeed adding the class without removing the other one first
setTickerSpeed_KeepsOld(c, speed) ==
  IF tickerTrack = NULL
  THEN c
  ELSE IF speed \in {"slow", "fast"}
       THEN [c EXCEPT !.classList = @ \cup {speed}]
       ELSE c

\* function setTickerSpeed(speed)
setTickerSpeed(c, speed) ==
  IF tickerTrack = NULL
  THEN c
  ELSE LET removed == [c EXCEPT !.classList = @ \ {"slow", "fast"}]
       IN  IF speed = "slow"
           THEN [removed EXCEPT !.classList = @ \cup {"slow"}]
           ELSE IF speed = "fast"
                THEN [removed EXCEPT !.classList = @ \cup {"fast"}]
                ELSE removed

\* function pauseTicker()
pauseTicker(c) ==
  IF tickerTrack # NULL THEN [c EXCEPT !.animationPlayState = "paused"] ELSE c

\* function resumeTicker()
resumeTicker(c) ==
  IF tickerTrack # NULL THEN [c EXCEPT !.animationPlayState = "running"] ELSE c

\* a call of setTickerSpeed / window.setTickerSpeed
SetTickerSpeed ==
  \E speed \in Speeds :
    /\ SetTickerControlState(setTickerSpeed(TickerControlState, speed))
    /\ lastOp' = Op("setTickerSpeed", speed, 0)
    /\ UNCHANGED <<tickerItems, tickerTrack, trackDom, placeholders,
                   animationDuration, tickerReady, tickerBuilt, headType,
                   tickerDemoVars, alertVars, chatVars, config>>

\* a call of pauseTicker / window.pauseTicker
PauseTicker ==
  /\ SetTickerControlState(pauseTicker(TickerControlState))
  /\ lastOp' = Op("pauseTicker", "", 0)
  /\ UNCHANGED <<tickerItems, tickerTrack, trackDom, placeholders,
                 animationDuration, tickerReady, tickerBuilt, headType,
                 tickerDemoVars, alertVars, chatVars, config>>

\* a call of resumeTicker / window.resumeTicker
ResumeTicker ==
  /\ SetTickerControlState(resumeTicker(TickerControlState))
  /\ lastOp' = Op("resumeTicker", "", 0)
  /\ UNCHANGED <<tickerItems, tickerTrack, trackDom, placeholders,
                 animationDuration, tickerReady, tickerBuilt, headType,
                 tickerDemoVars, alertVars, chatVars, config>>

NextTickerControls ==
  \/ InitTicker
  \/ AddTickerItem
  \/ ClearTicker
  \/ SetTickerSpeed
  \/ PauseTicker
  \/ ResumeTicker

SpecTickerControls == Init /\ [][NextTickerControls]_vars

ControlOps == {"setTickerSpeed", "pauseTicker", "resumeTicker"}

(***************************************************************************)
(* C37: the track never carries both speed classes; a setTickerSpeed call  *)
(* with a value other than 'slow' and 'fast' leaves neither, one with      *)
(* 'slow' or 'fast' on a found track leaves exactly that class; in every   *)
(* reachable state setTickerSpeed (any value), pauseTicker and             *)
(* resumeTicker applied twice give the state of applying them once; and a  *)
(* call of any of the three leaves tickerItems, the rendered items, the    *)
(* placeholder and the scroll duration unchanged.                          *)
(***************************************************************************)
C37_ControlsPresentationOnly ==
  /\ [](/\ ~({"slow", "fast"} \subseteq trackClassList)
        /\ \A speed \in Speeds :
             LET once == setTickerSpeed(TickerControlState, speed)
             IN  setTickerSpeed(once, speed) = once
        /\ LET paused == pauseTicker(TickerControlState)
               resumed == resumeTicker(TickerControlState)
           IN  /\ pauseTicker(paused) = paused
               /\ resumeTicker(resumed) = resumed)
  /\ [][lastOp'.op = "setTickerSpeed"
          => IF lastOp'.type \in {"slow", "fast"} /\ tickerTrack # NULL
             THEN trackClassList' = {lastOp'.type}
             ELSE trackClassList' \cap {"slow", "fast"} = {}]_vars
  /\ [][lastOp'.op \in ControlOps
          => UNCHANGED <<tickerItems, trackDom, placeholders,
                         animationDuration, headType>>]_vars

\* with two items on the track and the ticker paused, the speed was changed
\* from slow to fast: only 'fast' is left and the items are as before
C37_Witness ==
  /\ lastOp = Op("setTickerSpeed", "fast", 0)
  /\ trackClassList = {"fast"}
  /\ animationPlayState = "paused"
  /\ Len(tickerItems) = 2
  /\ Len(trackDom) = 8

=============================================================================
